---------------------------- MODULE Spec2Model ----------------------------
(***************************************************************************)
(* Model of src/src/vault/vaultFunctions.ts: the Vault helper (preview     *)
(* conversions, deposits with optional pre-approval, withdrawals) and the  *)
(* OrderCanceler helper (cancelOrders, estimateGas).                       *)
(*                                                                         *)
(* One behaviour is one call of one helper.  Init picks the helper and its *)
(* arguments; every step is one await of the helper's body.  The contracts *)
(* and the node are external: each call either answers with a value drawn  *)
(* from a small set or raises one of Errors.  `calls` is the list of the   *)
(* external calls the helper has issued, in the order it issued them.      *)
(*                                                                         *)
(* An optional JavaScript value is a sequence of length at most one:       *)
(* << >> is undefined and <<v>> is the value v.                            *)
(***************************************************************************)
EXTENDS Integers, Sequences, FiniteSets, TLC

\* ---------------------------------------------------------------- bounds
\* Token amounts, share counts and vault totals range over 0..MaxAmount.
MaxAmount == 3
\* Gas limits, gas prices, fee caps and nonces range over 0..MaxGas.
MaxGas == 1

\* ------------------------------------------------------------- constants
\* ethers.constants.WeiPerEther (10^18 wei), counted in the unit of Prices,
\* 10^15 wei: 10^18 / 10^15.  amount1 * price / WeiPerEther is then exact for
\* every price that is a multiple of 10^15 wei.
WeiPerEther == 1000
\* parseUnits(v, 'gwei') scales by 10^9.
GweiDecimals == 9

Amounts == 0..MaxAmount
GasValues == 0..MaxGas
\* vaultBestAsk, in units of 10^15 wei: 0, 0.5, 1, 1.5 and 2.5 ether.
Prices == {0, 500, 1000, 1500, 2500}
\* priorityFee, a JavaScript number, in gwei.
PriorityFees == {0, 1, 2}

VaultAddress == "vault"
MarketAddress == "market"
OrderbookAddress == "orderbook"
SignerAddress == "signer"
BaseAsset == "baseAsset"
QuoteAsset == "quoteAsset"
Tokens == {BaseAsset, QuoteAsset}

Undefined == << >>
Some(v) == <<v>>
Optional(S) == {Undefined} \cup {Some(v) : v \in S}

\* JavaScript truthiness.  A BigNumber is an object: truthy whenever it is
\* there, zero included.  A number is falsy when it is 0.
TruthyBigNumber(v) == v # Undefined
TruthyNumber(v) == v # Undefined /\ v[1] # 0

\* What the external layer raises: an error without an `error` field, one whose
\* `error` field is falsy, one whose `error` field is truthy.
Errors ==
  { [name |-> "plain", error |-> Undefined],
    [name |-> "falsyError", error |-> Some(0)],
    [name |-> "providerError", error |-> Some(1)] }
\* BigNumber.div raises this on a zero divisor.
DivisionByZero == [name |-> "division-by-zero", error |-> Undefined]

VaultOps ==
  { "calculateDepositForShares", "calculateWithdrawForShares",
    "calculateSharesForDeposit", "calculateAmount2ForAmount1",
    "depositBasedOnAmount1", "depositBasedOnShares", "depositWithAmounts",
    "withdrawBasedOnAmount1", "withdrawBasedOnShares" }
DepositOps == {"depositBasedOnAmount1", "depositBasedOnShares", "depositWithAmounts"}
WithdrawOps == {"withdrawBasedOnAmount1", "withdrawBasedOnShares"}
CancelerOps == {"cancelOrders", "estimateGas"}

\* TransactionOptions (imported from ../types): every field optional.  The gas
\* fields are BigNumbers, nonce and priorityFee are numbers.
TransactionOptions ==
  [ nonce : Optional(GasValues),
    gasLimit : Optional(GasValues),
    gasPrice : Optional(GasValues),
    maxFeePerGas : Optional(GasValues),
    maxPriorityFeePerGas : Optional(GasValues),
    priorityFee : Optional(PriorityFees) ]
NoOptions ==
  [ nonce |-> Undefined, gasLimit |-> Undefined, gasPrice |-> Undefined,
    maxFeePerGas |-> Undefined, maxPriorityFeePerGas |-> Undefined,
    priorityFee |-> Undefined ]
OrderIdLists == {<<1>>, <<1, 2>>}

VARIABLES
  op,         \* the helper that was called
  args,       \* its arguments
  pc,         \* the await the call is at; "done" once it returned or threw
  local,      \* the helper's local variables
  calls,      \* the external calls issued so far, oldest first
  allowance,  \* per token, the vault's allowance as confirmed approvals set it
  outcome,    \* what the caller gets: pending, returned (value) or thrown (value)
  failed,     \* the call site that raised and what it raised; Undefined if none did
  tx,         \* cancelOrders: the TransactionRequest being built
  fetch,      \* cancelOrders: the two promises handed to Promise.all
  settled     \* cancelOrders: the promises in the order they resolved

vars == <<op, args, pc, local, calls, allowance, outcome, failed, tx, fetch, settled>>

\* ------------------------------------------------------------ arithmetic
\* BigNumber.mul and BigNumber.div (bn.js): the quotient is truncated toward
\* zero; a zero divisor raises, which the caller handles before using Div.
Mul(a, b) == a * b
Abs(a) == IF a < 0 THEN -a ELSE a
Div(a, b) ==
  IF (a < 0) = (b < 0) THEN Abs(a) \div Abs(b) ELSE -(Abs(a) \div Abs(b))

RECURSIVE Pow10(_)
Pow10(n) == IF n = 0 THEN 1 ELSE 10 * Pow10(n - 1)
\* parseUnits left out: the fee in gwei is added to a price in wei.  C10 must
\* not survive it.
ParseUnitsNoScale(value) == value

\* ethers.utils.parseUnits(value.toString(), 'gwei') of a whole number of gwei.
ParseUnitsGwei(value) == value * Pow10(GweiDecimals)

\* ----------------------------------------------------------------- calls
\* One external call: where in the helper it is made, what it is (a read, a
\* transaction sent, a wait for a transaction's confirmation), the contract or
\* account it goes to, its numeric and address arguments, the transaction
\* request handed to the signer if any, and its answer (Undefined while it is
\* in flight and when it raised).
Call(site, kind, fn, to, nums, addrs, ret) ==
  [site |-> site, kind |-> kind, fn |-> fn, to |-> to, nums |-> nums,
   addrs |-> addrs, tx |-> Undefined, ret |-> ret]
Issue(c) == calls' = Append(calls, c)
Ok(c) == c.ret # Undefined

Pending == [kind |-> "pending", value |-> Undefined]
Returned(v) == [kind |-> "returned", value |-> Some(v)]
Thrown(e) == [kind |-> "thrown", value |-> Some(e)]
Receipt(fn) == [receipt |-> fn]

NoLocal ==
  [ amount1 |-> Undefined, amount2 |-> Undefined, token1 |-> Undefined,
    token2 |-> Undefined, totalAssets |-> Undefined, totalSupply |-> Undefined,
    shares |-> Undefined, receiver |-> Undefined, owner |-> Undefined ]
NoArgs ==
  [ amount1 |-> 0, amount2 |-> 0, shares |-> 0, shouldApprove |-> FALSE,
    orderIds |-> << >>, txOptions |-> Undefined ]
NoTx ==
  [ to |-> Undefined, from |-> Undefined, data |-> Undefined, nonce |-> Undefined,
    gasLimit |-> Undefined, gasPrice |-> Undefined, maxFeePerGas |-> Undefined,
    maxPriorityFeePerGas |-> Undefined ]
Idle == [state |-> "idle", value |-> Undefined]
NoFetch == [gas |-> Idle, price |-> Idle]

\* Throw with a retry: the failing await is attempted again instead of ending
\* the call.  C4 must not survive it.
ThrowAndRetry(site, e) ==
  /\ pc' = pc
  /\ outcome' = outcome
  /\ failed' = Some([site |-> site, error |-> e])

\* An exception that leaves a Vault helper: nothing catches it.
Throw(site, e) ==
  /\ pc' = "done"
  /\ outcome' = Thrown(e)
  /\ failed' = Some([site |-> site, error |-> e])

Return(v) ==
  /\ pc' = "done"
  /\ outcome' = Returned(v)
  /\ failed' = failed

Goto(label) ==
  /\ pc' = label
  /\ UNCHANGED <<outcome, failed>>


\* if (shouldApprove) { ...approvals... }, then the vault transaction.
\* ApprovalBranchAlways takes the approvals whatever shouldApprove is; C2 must
\* not survive it.
ApprovalBranchAlways(shouldApprove, first) == first
ApprovalBranch(shouldApprove, first) ==
  IF shouldApprove THEN first ELSE "getAddress"

\* ------------------------------------------------------------ Vault steps
\* await signer.getAddress(), kept in local[field].
getAddress(site, field, next) ==
  /\ pc = site
  /\ \/ /\ Issue(Call(site, "read", "getAddress", SignerAddress, << >>, << >>,
                      Some(SignerAddress)))
        /\ local' = [local EXCEPT ![field] = Some(SignerAddress)]
        /\ Goto(next)
     \/ \E e \in Errors :
          /\ Issue(Call(site, "read", "getAddress", SignerAddress, << >>, << >>,
                        Undefined))
          /\ Throw(site, e)
          /\ UNCHANGED local
  /\ UNCHANGED allowance

\* await ParamFetcher.getMarketParams(signer, marketAddress); token1Address and
\* token2Address are its baseAssetAddress and quoteAssetAddress.
getMarketParams(next) ==
  /\ pc = "getMarketParams"
  /\ \/ LET marketParams ==
              [baseAssetAddress |-> BaseAsset, quoteAssetAddress |-> QuoteAsset]
        IN /\ Issue(Call("getMarketParams", "read", "getMarketParams", MarketAddress,
                         << >>, << >>, Some(marketParams)))
           /\ local' = [local EXCEPT !.token1 = Some(marketParams.baseAssetAddress),
                                     !.token2 = Some(marketParams.quoteAssetAddress)]
           /\ Goto(next)
     \/ \E e \in Errors :
          /\ Issue(Call("getMarketParams", "read", "getMarketParams", MarketAddress,
                        << >>, << >>, Undefined))
          /\ Throw("getMarketParams", e)
          /\ UNCHANGED local
  /\ UNCHANGED allowance

\* approveToken without `await tx.wait()`: the helper goes on as soon as the
\* approve is sent.  C1 must not survive it.
approveTokenNoWait(tokenAddress, spenderAddress, amount, site, waitSite, next) ==
  /\ pc = site
  /\ \/ /\ Issue(Call(site, "tx", "approve", tokenAddress, <<amount>>,
                      <<spenderAddress>>, Some("sent")))
        /\ Goto(next)
     \/ \E e \in Errors :
          /\ Issue(Call(site, "tx", "approve", tokenAddress, <<amount>>,
                        <<spenderAddress>>, Undefined))
          /\ Throw(site, e)
  /\ UNCHANGED <<local, allowance>>

\* approveToken: token.approve(spenderAddress, amount) is sent, then tx.wait()
\* is awaited.  The allowance is the approved amount once the wait confirms.
approveToken(tokenAddress, spenderAddress, amount, site, waitSite, next) ==
  \/ /\ pc = site
     /\ \/ /\ Issue(Call(site, "tx", "approve", tokenAddress, <<amount>>,
                         <<spenderAddress>>, Some("sent")))
           /\ Goto(waitSite)
        \/ \E e \in Errors :
             /\ Issue(Call(site, "tx", "approve", tokenAddress, <<amount>>,
                           <<spenderAddress>>, Undefined))
             /\ Throw(site, e)
     /\ UNCHANGED <<local, allowance>>
  \/ /\ pc = waitSite
     /\ \/ /\ Issue(Call(waitSite, "wait", "approve", tokenAddress, <<amount>>,
                         <<spenderAddress>>, Some(Receipt("approve"))))
           /\ allowance' = [allowance EXCEPT ![tokenAddress] = amount]
           /\ Goto(next)
        \/ \E e \in Errors :
             /\ Issue(Call(waitSite, "wait", "approve", tokenAddress, <<amount>>,
                           <<spenderAddress>>, Undefined))
             /\ Throw(waitSite, e)
             /\ UNCHANGED allowance
     /\ UNCHANGED local

\* const tx = await vault.<fn>(...); return await tx.wait();
vaultTransaction(fn, nums, addrs) ==
  \/ /\ pc = fn
     /\ \/ /\ Issue(Call(fn, "tx", fn, VaultAddress, nums, addrs, Some("sent")))
           /\ Goto("wait")
        \/ \E e \in Errors :
             /\ Issue(Call(fn, "tx", fn, VaultAddress, nums, addrs, Undefined))
             /\ Throw(fn, e)
     /\ UNCHANGED <<local, allowance>>
  \/ /\ pc = "wait"
     /\ \/ /\ Issue(Call("wait", "wait", fn, VaultAddress, nums, addrs,
                         Some(Receipt(fn))))
           /\ Return(Receipt(fn))
        \/ \E e \in Errors :
             /\ Issue(Call("wait", "wait", fn, VaultAddress, nums, addrs, Undefined))
             /\ Throw("wait", e)
     /\ UNCHANGED <<local, allowance>>

\* ---------------------------------------------------------- Vault helpers
\* PreviewResult with the two amounts exchanged.  C9 must not survive it.
PreviewResultSwapped(r) == [amount1 |-> r[2], amount2 |-> r[1]]

\* const [amount1, amount2] = await vault.preview...(shares);
\* return { amount1, amount2 };
PreviewResult(r) == [amount1 |-> r[1], amount2 |-> r[2]]

calculateDepositForShares ==
  /\ op \in {"calculateDepositForShares", "depositBasedOnShares"}
  /\ pc = "previewMint"
  /\ \/ \E a1 \in Amounts, a2 \in Amounts :
          /\ Issue(Call("previewMint", "read", "previewMint", VaultAddress,
                        <<args.shares>>, << >>, Some(<<a1, a2>>)))
          /\ local' = [local EXCEPT
                         !.amount1 = Some(PreviewResult(<<a1, a2>>).amount1),
                         !.amount2 = Some(PreviewResult(<<a1, a2>>).amount2)]
          /\ IF op = "calculateDepositForShares"
               THEN Return(PreviewResult(<<a1, a2>>))
               ELSE Goto("getMarketParams")
     \/ \E e \in Errors :
          /\ Issue(Call("previewMint", "read", "previewMint", VaultAddress,
                        <<args.shares>>, << >>, Undefined))
          /\ Throw("previewMint", e)
          /\ UNCHANGED local
  /\ UNCHANGED <<op, args, allowance, tx, fetch, settled>>

calculateWithdrawForShares ==
  /\ op = "calculateWithdrawForShares"
  /\ pc = "previewRedeem"
  /\ \/ \E a1 \in Amounts, a2 \in Amounts :
          /\ Issue(Call("previewRedeem", "read", "previewRedeem", VaultAddress,
                        <<args.shares>>, << >>, Some(<<a1, a2>>)))
          /\ local' = [local EXCEPT
                         !.amount1 = Some(PreviewResult(<<a1, a2>>).amount1),
                         !.amount2 = Some(PreviewResult(<<a1, a2>>).amount2)]
          /\ Return(PreviewResult(<<a1, a2>>))
     \/ \E e \in Errors :
          /\ Issue(Call("previewRedeem", "read", "previewRedeem", VaultAddress,
                        <<args.shares>>, << >>, Undefined))
          /\ Throw("previewRedeem", e)
          /\ UNCHANGED local
  /\ UNCHANGED <<op, args, allowance, tx, fetch, settled>>

calculateSharesForDeposit ==
  /\ op = "calculateSharesForDeposit"
  /\ pc = "previewDeposit"
  /\ \/ \E s \in Amounts :
          /\ Issue(Call("previewDeposit", "read", "previewDeposit", VaultAddress,
                        <<args.amount1, args.amount2>>, << >>, Some(s)))
          /\ Return(s)
     \/ \E e \in Errors :
          /\ Issue(Call("previewDeposit", "read", "previewDeposit", VaultAddress,
                        <<args.amount1, args.amount2>>, << >>, Undefined))
          /\ Throw("previewDeposit", e)
  /\ UNCHANGED <<op, args, local, allowance, tx, fetch, settled>>

\* Amount2ForAmount1 rounding up instead of down.  C8 must not survive it.
Amount2RoundedUp(amount1, price) ==
  Div(Mul(amount1, price) + WeiPerEther - 1, WeiPerEther)

\* amount1.mul(price).div(WeiPerEther), price being vaultParams.vaultBestAsk.
Amount2ForAmount1(amount1, price) == Div(Mul(amount1, price), WeiPerEther)

calculateAmount2ForAmount1 ==
  /\ op \in {"calculateAmount2ForAmount1", "depositBasedOnAmount1"}
  /\ pc = "getVaultParams"
  /\ \/ \E price \in Prices :
          LET vaultParams == [vaultBestAsk |-> price]
              amount2 == Amount2ForAmount1(args.amount1, vaultParams.vaultBestAsk)
          IN /\ Issue(Call("getVaultParams", "read", "getVaultParams", MarketAddress,
                           << >>, << >>, Some(vaultParams)))
             /\ local' = [local EXCEPT !.amount2 = Some(amount2)]
             /\ IF op = "calculateAmount2ForAmount1"
                  THEN Return(amount2)
                  ELSE Goto(ApprovalBranch(args.shouldApprove, "getMarketParams"))
     \/ \E e \in Errors :
          /\ Issue(Call("getVaultParams", "read", "getVaultParams", MarketAddress,
                        << >>, << >>, Undefined))
          /\ Throw("getVaultParams", e)
          /\ UNCHANGED local
  /\ UNCHANGED <<op, args, allowance, tx, fetch, settled>>

depositBasedOnAmount1 ==
  /\ op = "depositBasedOnAmount1"
  /\ \/ getMarketParams("approve1")
     \/ approveToken(local.token1[1], VaultAddress, args.amount1,
                     "approve1", "approve1Wait", "approve2")
     \/ approveToken(local.token2[1], VaultAddress, local.amount2[1],
                     "approve2", "approve2Wait", "getAddress")
     \/ getAddress("getAddress", "receiver", "deposit")
     \/ vaultTransaction("deposit", <<args.amount1, local.amount2[1]>>,
                         <<local.receiver[1]>>)
  /\ UNCHANGED <<op, args, tx, fetch, settled>>

depositBasedOnShares ==
  /\ op = "depositBasedOnShares"
  /\ \/ getMarketParams("approve1")
     \/ approveToken(local.token1[1], VaultAddress, local.amount1[1],
                     "approve1", "approve1Wait", "approve2")
     \/ approveToken(local.token2[1], VaultAddress, local.amount2[1],
                     "approve2", "approve2Wait", "getAddress")
     \/ getAddress("getAddress", "receiver", "mint")
     \/ vaultTransaction("mint", <<args.shares>>, <<local.receiver[1]>>)
  /\ UNCHANGED <<op, args, tx, fetch, settled>>

\* SharesForAmount1 handing amount1 on as the share count.  C7 must not
\* survive it.
SharesIsAmount1(amount1, totalSupply, totalAssets) == amount1

\* amount1.mul(totalSupply).div(totalAssets[0])
SharesForAmount1(amount1, totalSupply, totalAssets) ==
  Div(Mul(amount1, totalSupply), totalAssets[1])

withdrawBasedOnAmount1 ==
  /\ op = "withdrawBasedOnAmount1"
  /\ \/ /\ pc = "totalAssets"
        /\ \/ \E t0 \in Amounts, t1 \in Amounts :
                /\ Issue(Call("totalAssets", "read", "totalAssets", VaultAddress,
                              << >>, << >>, Some(<<t0, t1>>)))
                /\ local' = [local EXCEPT !.totalAssets = Some(<<t0, t1>>)]
                /\ Goto("totalSupply")
           \/ \E e \in Errors :
                /\ Issue(Call("totalAssets", "read", "totalAssets", VaultAddress,
                              << >>, << >>, Undefined))
                /\ Throw("totalAssets", e)
                /\ UNCHANGED local
        /\ UNCHANGED allowance
     \/ /\ pc = "totalSupply"
        /\ \/ \E s \in Amounts :
                /\ Issue(Call("totalSupply", "read", "totalSupply", VaultAddress,
                              << >>, << >>, Some(s)))
                /\ IF local.totalAssets[1][1] = 0
                     THEN /\ Throw("shares", DivisionByZero)
                          /\ local' = [local EXCEPT !.totalSupply = Some(s)]
                     ELSE /\ local' =
                               [local EXCEPT
                                  !.totalSupply = Some(s),
                                  !.shares = Some(SharesForAmount1(
                                               args.amount1, s, local.totalAssets[1]))]
                          /\ Goto("getAddress")
           \/ \E e \in Errors :
                /\ Issue(Call("totalSupply", "read", "totalSupply", VaultAddress,
                              << >>, << >>, Undefined))
                /\ Throw("totalSupply", e)
                /\ UNCHANGED local
        /\ UNCHANGED allowance
     \/ getAddress("getAddress", "receiver", "getAddress2")
     \/ getAddress("getAddress2", "owner", "withdraw")
     \/ vaultTransaction("withdraw", <<local.shares[1]>>,
                         <<local.receiver[1], local.owner[1]>>)
  /\ UNCHANGED <<op, args, tx, fetch, settled>>

withdrawBasedOnShares ==
  /\ op = "withdrawBasedOnShares"
  /\ \/ getAddress("getAddress", "receiver", "getAddress2")
     \/ getAddress("getAddress2", "owner", "redeem")
     \/ vaultTransaction("redeem", <<args.shares>>,
                         <<local.receiver[1], local.owner[1]>>)
  /\ UNCHANGED <<op, args, tx, fetch, settled>>

depositWithAmounts ==
  /\ op = "depositWithAmounts"
  /\ \/ getMarketParams("approve1")
     \/ approveToken(local.token1[1], VaultAddress, args.amount1,
                     "approve1", "approve1Wait", "approve2")
     \/ approveToken(local.token2[1], VaultAddress, args.amount2,
                     "approve2", "approve2Wait", "getAddress")
     \/ getAddress("getAddress", "receiver", "deposit")
     \/ vaultTransaction("deposit", <<args.amount1, args.amount2>>,
                         <<local.receiver[1]>>)
  /\ UNCHANGED <<op, args, tx, fetch, settled>>


\* ----------------------------------------------------------- OrderCanceler
\* extractErrorMessage (imported from ../utils) turns a provider error into a
\* simplified one.
extractErrorMessage(e) == [extracted |-> e]

\* Catch with the test inverted.  C3 must not survive it.
CatchInverted(e) == IF TruthyNumber(e.error) THEN e ELSE extractErrorMessage(e)

\* catch (e: any) { if (!e.error) throw e; throw extractErrorMessage(e); }
Catch(e) == IF ~TruthyNumber(e.error) THEN e ELSE extractErrorMessage(e)

\* An exception raised inside the try block of cancelOrders or estimateGas.
Caught(site, e) ==
  /\ pc' = "done"
  /\ outcome' = Thrown(Catch(e))
  /\ failed' = Some([site |-> site, error |-> e])

\* txOptions?.<field>
Option(txOptions, field) ==
  IF txOptions = Undefined THEN Undefined ELSE txOptions[1][field]

\* orderbook.interface.encodeFunctionData("batchCancelOrders", [orderIds])
encodeFunctionData(fn, orderIds) == [fn |-> fn, orderIds |-> orderIds]

\* BuildTx testing the nonce for truthiness, as it does the gas fields: nonce 0
\* is dropped.  C6 must not survive it.
BuildTxTruthyNonce(address, data, txOptions) ==
  [ to |-> Some(OrderbookAddress),
    from |-> Some(address),
    data |-> Some(data),
    nonce |-> IF TruthyNumber(Option(txOptions, "nonce"))
                THEN Option(txOptions, "nonce") ELSE Undefined,
    gasLimit |-> Option(txOptions, "gasLimit"),
    gasPrice |-> Option(txOptions, "gasPrice"),
    maxFeePerGas |-> Option(txOptions, "maxFeePerGas"),
    maxPriorityFeePerGas |-> Option(txOptions, "maxPriorityFeePerGas") ]

\* const tx: TransactionRequest = { to, from, data, ...(cond && { field }) }
BuildTx(address, data, txOptions) ==
  [ to |-> Some(OrderbookAddress),
    from |-> Some(address),
    data |-> Some(data),
    nonce |-> IF Option(txOptions, "nonce") # Undefined
                THEN Option(txOptions, "nonce") ELSE Undefined,
    gasLimit |-> IF TruthyBigNumber(Option(txOptions, "gasLimit"))
                   THEN Option(txOptions, "gasLimit") ELSE Undefined,
    gasPrice |-> IF TruthyBigNumber(Option(txOptions, "gasPrice"))
                   THEN Option(txOptions, "gasPrice") ELSE Undefined,
    maxFeePerGas |-> IF TruthyBigNumber(Option(txOptions, "maxFeePerGas"))
                       THEN Option(txOptions, "maxFeePerGas") ELSE Undefined,
    maxPriorityFeePerGas |->
      IF TruthyBigNumber(Option(txOptions, "maxPriorityFeePerGas"))
        THEN Option(txOptions, "maxPriorityFeePerGas") ELSE Undefined ]

\* The two promises of Promise.all: a call in flight, or Promise.resolve(...)
\* of the supplied gas limit, respectively of undefined.
NeedsGasEstimate(t) == ~TruthyBigNumber(t.gasLimit)
NeedsGasPrice(t) == ~TruthyBigNumber(t.gasPrice) /\ ~TruthyBigNumber(t.maxFeePerGas)
StartFetch(t) ==
  [ gas |-> IF NeedsGasEstimate(t)
              THEN [state |-> "pending", value |-> Undefined]
              ELSE [state |-> "resolved", value |-> t.gasLimit],
    price |-> IF NeedsGasPrice(t)
                THEN [state |-> "pending", value |-> Undefined]
                ELSE [state |-> "resolved", value |-> Undefined] ]
FetchCalls(t) ==
  (IF NeedsGasEstimate(t)
     THEN << [ Call("signerEstimateGas", "read", "estimateGas", SignerAddress,
                    << >>, << >>, Undefined)
               EXCEPT !.tx = Some([t EXCEPT !.gasPrice = Some(ParseUnitsGwei(1))]) ] >>
     ELSE << >>)
  \o
  (IF NeedsGasPrice(t)
     THEN << Call("getGasPrice", "read", "getGasPrice", SignerAddress,
                  << >>, << >>, Undefined) >>
     ELSE << >>)

\* Promise.all handing the results over in the order the promises resolved.  C5
\* must not survive it.
PromiseAllInCompletionOrder(f, order) ==
  IF order = <<"price", "gas">> THEN <<f.price.value, f.gas.value>>
                                ELSE <<f.gas.value, f.price.value>>

\* const [gasLimit, baseGasPrice] = await Promise.all([...]): the results in
\* the order of the array, whatever the order the promises resolved in.
PromiseAll(f, order) == <<f.gas.value, f.price.value>>

\* if (!tx.gasLimit) {...}  if (!tx.gasPrice && !tx.maxFeePerGas && baseGasPrice) {...}
GasDefaults(t, txOptions, gasLimit, baseGasPrice) ==
  LET t1 == IF ~TruthyBigNumber(t.gasLimit) THEN [t EXCEPT !.gasLimit = gasLimit] ELSE t
  IN IF /\ ~TruthyBigNumber(t1.gasPrice)
        /\ ~TruthyBigNumber(t1.maxFeePerGas)
        /\ TruthyBigNumber(baseGasPrice)
       THEN IF TruthyNumber(Option(txOptions, "priorityFee"))
              THEN LET priorityFeeWei ==
                         ParseUnitsGwei(Option(txOptions, "priorityFee")[1])
                   IN [t1 EXCEPT !.gasPrice = Some(baseGasPrice[1] + priorityFeeWei)]
              ELSE [t1 EXCEPT !.gasPrice = baseGasPrice]
       ELSE t1

\* The answer of the call made at `site` arrives.
Answer(site, v) ==
  calls' = [i \in DOMAIN calls |->
              IF calls[i].site = site THEN [calls[i] EXCEPT !.ret = Some(v)]
                                      ELSE calls[i]]

cancelOrders ==
  /\ op = "cancelOrders"
  /\ \/ \* const address = await signer.getAddress(); the request is built and
        \* both promises of Promise.all are created before the next await.
        /\ pc = "getAddress"
        /\ \/ LET data == encodeFunctionData("batchCancelOrders", args.orderIds)
                  t == BuildTx(SignerAddress, data, args.txOptions)
              IN /\ calls' = Append(calls, Call("getAddress", "read", "getAddress",
                                                SignerAddress, << >>, << >>,
                                                Some(SignerAddress)))
                             \o FetchCalls(t)
                 /\ tx' = t
                 /\ fetch' = StartFetch(t)
                 /\ Goto("promiseAll")
           \/ \E e \in Errors :
                /\ Issue(Call("getAddress", "read", "getAddress", SignerAddress,
                              << >>, << >>, Undefined))
                /\ Caught("getAddress", e)
                /\ UNCHANGED <<tx, fetch>>
        /\ UNCHANGED settled
     \/ \* signer.estimateGas(...) settles
        /\ pc = "promiseAll"
        /\ fetch.gas.state = "pending"
        /\ \/ \E g \in GasValues :
                /\ fetch' = [fetch EXCEPT !.gas = [state |-> "resolved",
                                                   value |-> Some(g)]]
                /\ settled' = Append(settled, "gas")
                /\ Answer("signerEstimateGas", g)
                /\ Goto("promiseAll")
           \/ \E e \in Errors :
                /\ fetch' = [fetch EXCEPT !.gas = [state |-> "rejected",
                                                   value |-> Some(e)]]
                /\ Caught("signerEstimateGas", e)
                /\ UNCHANGED <<settled, calls>>
        /\ UNCHANGED tx
     \/ \* signer.provider.getGasPrice() settles
        /\ pc = "promiseAll"
        /\ fetch.price.state = "pending"
        /\ \/ \E g \in GasValues :
                /\ fetch' = [fetch EXCEPT !.price = [state |-> "resolved",
                                                     value |-> Some(g)]]
                /\ settled' = Append(settled, "price")
                /\ Answer("getGasPrice", g)
                /\ Goto("promiseAll")
           \/ \E e \in Errors :
                /\ fetch' = [fetch EXCEPT !.price = [state |-> "rejected",
                                                     value |-> Some(e)]]
                /\ Caught("getGasPrice", e)
                /\ UNCHANGED <<settled, calls>>
        /\ UNCHANGED tx
     \/ \* Promise.all resolved: the defaults are applied and the request is sent
        /\ pc = "promiseAll"
        /\ fetch.gas.state = "resolved"
        /\ fetch.price.state = "resolved"
        /\ LET results == PromiseAll(fetch, settled)
               t == GasDefaults(tx, args.txOptions, results[1], results[2])
           IN /\ tx' = t
              /\ \/ /\ Issue([Call("sendTransaction", "tx", "sendTransaction",
                                   SignerAddress, << >>, << >>, Some("sent"))
                              EXCEPT !.tx = Some(t)])
                    /\ Goto("wait")
                 \/ \E e \in Errors :
                      /\ Issue([Call("sendTransaction", "tx", "sendTransaction",
                                     SignerAddress, << >>, << >>, Undefined)
                                EXCEPT !.tx = Some(t)])
                      /\ Caught("sendTransaction", e)
        /\ UNCHANGED <<fetch, settled>>
     \/ \* const receipt = await transaction.wait(1)
        /\ pc = "wait"
        /\ \/ /\ Issue(Call("wait", "wait", "sendTransaction", SignerAddress,
                            << >>, << >>, Some(Receipt("sendTransaction"))))
              /\ Return(Receipt("sendTransaction"))
           \/ \E e \in Errors :
                /\ Issue(Call("wait", "wait", "sendTransaction", SignerAddress,
                              << >>, << >>, Undefined))
                /\ Caught("wait", e)
        /\ UNCHANGED <<tx, fetch, settled>>
  /\ UNCHANGED <<op, args, local, allowance>>

estimateGas ==
  /\ op = "estimateGas"
  /\ pc = "estimateGas"
  /\ \/ \E g \in GasValues :
          /\ Issue(Call("estimateGas", "read", "estimateGas.batchCancelOrders",
                        OrderbookAddress, args.orderIds, << >>, Some(g)))
          /\ Return(g)
     \/ \E e \in Errors :
          /\ Issue(Call("estimateGas", "read", "estimateGas.batchCancelOrders",
                        OrderbookAddress, args.orderIds, << >>, Undefined))
          /\ Caught("estimateGas", e)
  /\ UNCHANGED <<op, args, local, allowance, tx, fetch, settled>>

\* ------------------------------------------------------------------ system
\* The first await of each helper; shouldApprove defaults to false and the
\* deposits skip the approval block without it.
StartPc(o, a) ==
  CASE o = "calculateDepositForShares" -> "previewMint"
    [] o = "calculateWithdrawForShares" -> "previewRedeem"
    [] o = "calculateSharesForDeposit" -> "previewDeposit"
    [] o = "calculateAmount2ForAmount1" -> "getVaultParams"
    [] o = "depositBasedOnAmount1" -> "getVaultParams"
    [] o = "depositBasedOnShares" -> ApprovalBranch(a.shouldApprove, "previewMint")
    [] o = "depositWithAmounts" -> ApprovalBranch(a.shouldApprove, "getMarketParams")
    [] o = "withdrawBasedOnAmount1" -> "totalAssets"
    [] o = "withdrawBasedOnShares" -> "getAddress"
    [] o = "cancelOrders" -> "getAddress"
    [] o = "estimateGas" -> "estimateGas"

\* The arguments a helper reads; the others keep their NoArgs value.
ArgsOf(o) ==
  CASE o \in {"calculateDepositForShares", "calculateWithdrawForShares",
              "withdrawBasedOnShares"} ->
         {[NoArgs EXCEPT !.shares = s] : s \in Amounts}
    [] o \in {"calculateAmount2ForAmount1", "withdrawBasedOnAmount1"} ->
         {[NoArgs EXCEPT !.amount1 = a] : a \in Amounts}
    [] o = "calculateSharesForDeposit" ->
         {[NoArgs EXCEPT !.amount1 = a, !.amount2 = b] : a \in Amounts, b \in Amounts}
    [] o = "depositBasedOnAmount1" ->
         {[NoArgs EXCEPT !.amount1 = a, !.shouldApprove = b] :
            a \in Amounts, b \in BOOLEAN}
    [] o = "depositBasedOnShares" ->
         {[NoArgs EXCEPT !.shares = s, !.shouldApprove = b] :
            s \in Amounts, b \in BOOLEAN}
    [] o = "depositWithAmounts" ->
         {[NoArgs EXCEPT !.amount1 = a, !.amount2 = c, !.shouldApprove = b] :
            a \in Amounts, c \in Amounts, b \in BOOLEAN}
    [] o = "cancelOrders" ->
         {[NoArgs EXCEPT !.orderIds = ids, !.txOptions = t] :
            ids \in OrderIdLists, t \in Optional(TransactionOptions)}
    [] o = "estimateGas" ->
         {[NoArgs EXCEPT !.orderIds = ids] : ids \in OrderIdLists}

Init ==
  /\ op \in VaultOps \cup CancelerOps
  /\ args \in ArgsOf(op)
  /\ pc = StartPc(op, args)
  /\ local = NoLocal
  /\ calls = << >>
  /\ allowance \in IF op \in DepositOps THEN [Tokens -> {0, MaxAmount}]
                                        ELSE [Tokens -> {0}]
  /\ outcome = Pending
  /\ failed = Undefined
  /\ tx = NoTx
  /\ fetch = NoFetch
  /\ settled = << >>

Next ==
  \/ calculateDepositForShares
  \/ calculateWithdrawForShares
  \/ calculateSharesForDeposit
  \/ calculateAmount2ForAmount1
  \/ depositBasedOnAmount1
  \/ depositBasedOnShares
  \/ withdrawBasedOnAmount1
  \/ withdrawBasedOnShares
  \/ depositWithAmounts
  \/ cancelOrders
  \/ estimateGas

Spec == Init /\ [][Next]_vars


\* ------------------------------------------------------------- properties
Made(site) == \E k \in DOMAIN calls : calls[k].site = site
IndexOf(site) == CHOOSE k \in DOMAIN calls : calls[k].site = site
CallAt(site) == calls[IndexOf(site)]
Sent(fn) == \E k \in DOMAIN calls : calls[k].kind = "tx" /\ calls[k].fn = fn
Confirmed(k, token) ==
  /\ calls[k].kind = "wait" /\ calls[k].fn = "approve"
  /\ calls[k].to = token /\ Ok(calls[k])
Approve(k, token) ==
  /\ calls[k].kind = "tx" /\ calls[k].fn = "approve"
  /\ calls[k].to = token /\ Ok(calls[k])

\* C1: in a deposit with shouldApprove = true the vault transaction (deposit or
\* mint) is sent only after the base-asset approve was sent and confirmed and
\* then the quote-asset approve was sent and confirmed, in that order; the
\* quote-asset approve is itself sent only after the base-asset approval was
\* confirmed; every approve names the vault as spender.
C1_ApprovalsBeforeDeposit ==
  (op \in DepositOps /\ args.shouldApprove) =>
    \A k \in DOMAIN calls :
      /\ (calls[k].kind = "tx" /\ calls[k].to = VaultAddress) =>
           \E i1, i2, i3, i4 \in 1..(k - 1) :
             /\ i1 < i2 /\ i2 < i3 /\ i3 < i4
             /\ Approve(i1, BaseAsset) /\ Confirmed(i2, BaseAsset)
             /\ Approve(i3, QuoteAsset) /\ Confirmed(i4, QuoteAsset)
      /\ (calls[k].kind = "tx" /\ calls[k].fn = "approve"
            /\ calls[k].to = QuoteAsset) =>
           \E i1, i2 \in 1..(k - 1) :
             i1 < i2 /\ Approve(i1, BaseAsset) /\ Confirmed(i2, BaseAsset)
      /\ calls[k].fn = "approve" => calls[k].addrs = <<VaultAddress>>

C1_Witness ==
  /\ op = "depositBasedOnAmount1" /\ args.shouldApprove
  /\ Sent("deposit") /\ outcome.kind = "returned"

\* C2: a deposit with shouldApprove = false issues no approve and no
\* getMarketParams, its only transaction is the one vault.deposit / vault.mint,
\* and it leaves the allowances as they were; a withdrawal never issues an
\* approve.
C2_NoApprovalCalls ==
  /\ (op \in DepositOps /\ ~args.shouldApprove) =>
       /\ \A k \in DOMAIN calls :
            /\ calls[k].fn \notin {"approve", "getMarketParams"}
            /\ calls[k].kind = "tx" =>
                 /\ calls[k].fn \in {"deposit", "mint"}
                 /\ calls[k].to = VaultAddress
       /\ Cardinality({k \in DOMAIN calls : calls[k].kind = "tx"}) <= 1
  /\ op \in WithdrawOps => \A k \in DOMAIN calls : calls[k].fn # "approve"

C2_NoApproval ==
  /\ []C2_NoApprovalCalls
  /\ [][((op \in DepositOps /\ ~args.shouldApprove) \/ op \in WithdrawOps)
          => allowance' = allowance]_vars

C2_Witness ==
  /\ op = "depositBasedOnShares" /\ ~args.shouldApprove
  /\ Sent("mint") /\ outcome.kind = "returned"
  /\ allowance[BaseAsset] = MaxAmount

\* C3: when a step of cancelOrders or estimateGas raises e, the helper throws:
\* e itself when e has no truthy `error` field, extractErrorMessage(e)
\* otherwise; it returns only when no step raised.
C3_ErrorsPropagate ==
  op \in CancelerOps =>
    /\ failed # Undefined =>
         /\ pc = "done"
         /\ outcome.kind = "thrown"
         /\ LET e == failed[1].error
            IN IF e.error = Undefined \/ e.error[1] = 0
                 THEN outcome.value[1] = e
                 ELSE outcome.value[1] = extractErrorMessage(e)
    /\ outcome.kind = "returned" =>
         failed = Undefined /\ \A k \in DOMAIN calls : Ok(calls[k])
    /\ (\E k \in DOMAIN calls :
          ~Ok(calls[k]) /\ calls[k].site \notin {"signerEstimateGas", "getGasPrice"})
         => failed # Undefined

C3_Witness ==
  /\ op = "cancelOrders" /\ failed # Undefined
  /\ failed[1].site = "sendTransaction"
  /\ TruthyNumber(failed[1].error.error)

\* C4: no call site is attempted twice; once a step failed the helper has
\* thrown and issued nothing after the failing call (only the gas-price fetch
\* issued together with a failing gas estimate follows it in the list); and
\* when the quote-asset approval fails in a deposit, no deposit / mint is sent
\* and the confirmed base-asset allowance stays as approved.
C4_NoRetryNoCompensation ==
  /\ \A i, j \in DOMAIN calls : calls[i].site = calls[j].site => i = j
  /\ failed # Undefined =>
       /\ pc = "done" /\ outcome.kind = "thrown"
       /\ failed[1].site # "shares" =>
            /\ Made(failed[1].site)
            /\ ~Ok(CallAt(failed[1].site))
            /\ \A k \in DOMAIN calls :
                 k > IndexOf(failed[1].site) =>
                   /\ failed[1].site = "signerEstimateGas"
                   /\ calls[k].site = "getGasPrice"
  /\ (op \in DepositOps /\ failed # Undefined
        /\ failed[1].site \in {"approve2", "approve2Wait"}) =>
       /\ ~Sent("deposit") /\ ~Sent("mint")
       /\ allowance[BaseAsset] = CallAt("approve1").nums[1]
       /\ Cardinality({k \in DOMAIN calls :
                         calls[k].fn = "approve" /\ calls[k].to = BaseAsset
                           /\ calls[k].kind = "tx"}) = 1

C4_Witness ==
  /\ op = "depositWithAmounts" /\ failed # Undefined
  /\ failed[1].site = "approve2Wait"
  /\ args.amount1 = 1 /\ allowance[BaseAsset] = 1

\* The options cancelOrders was given, all undefined when txOptions is.
Supplied == IF args.txOptions = Undefined THEN NoOptions ELSE args.txOptions[1]
SentTx == CallAt("sendTransaction").tx[1]

\* C5: cancelOrders sends at most one transaction, only once the gas estimate
\* and the gas price are both there; a failed fetch means no transaction; and
\* the transaction sent is fixed by the arguments and the two fetched values
\* alone, whichever fetch resolved first.
C5_ParallelFetchThenOneSend ==
  op = "cancelOrders" =>
    /\ Cardinality({k \in DOMAIN calls : calls[k].fn = "sendTransaction"
                                           /\ calls[k].kind = "tx"}) <= 1
    /\ (failed # Undefined
          /\ failed[1].site \in {"signerEstimateGas", "getGasPrice"}) =>
         ~Made("sendTransaction")
    /\ Made("sendTransaction") =>
         /\ fetch.gas.state = "resolved" /\ fetch.price.state = "resolved"
         /\ \A k \in DOMAIN calls :
              calls[k].site \in {"signerEstimateGas", "getGasPrice"} =>
                Ok(calls[k]) /\ k < IndexOf("sendTransaction")
         /\ SentTx.to = Some(OrderbookAddress)
         /\ SentTx.from = Some(SignerAddress)
         /\ SentTx.data = Some([fn |-> "batchCancelOrders",
                                orderIds |-> args.orderIds])
         /\ SentTx.gasLimit =
              IF Made("signerEstimateGas") THEN CallAt("signerEstimateGas").ret
                                           ELSE Supplied.gasLimit
         /\ Made("getGasPrice") =>
              \E fee \in {v * 1000000000 : v \in PriorityFees} :
                SentTx.gasPrice = Some(CallAt("getGasPrice").ret[1] + fee)

C5_Witness ==
  /\ op = "cancelOrders" /\ Made("sendTransaction")
  /\ settled = <<"price", "gas">>
  /\ CallAt("signerEstimateGas").ret = Some(0)
  /\ CallAt("getGasPrice").ret = Some(1)

\* C6: a supplied gasLimit means no estimateGas call and is sent as given, else
\* the estimate is sent; a supplied gasPrice or maxFeePerGas means no
\* getGasPrice call, and gasPrice, maxFeePerGas and maxPriorityFeePerGas are
\* sent as given (gasPrice unset when it was not supplied); a supplied nonce,
\* 0 included, is sent as given.
C6_GasOnlyDefaulted ==
  op = "cancelOrders" =>
    /\ Supplied.gasLimit # Undefined => ~Made("signerEstimateGas")
    /\ (Supplied.gasPrice # Undefined \/ Supplied.maxFeePerGas # Undefined) =>
         ~Made("getGasPrice")
    /\ Made("sendTransaction") =>
         /\ Supplied.gasLimit # Undefined => SentTx.gasLimit = Supplied.gasLimit
         /\ Supplied.gasLimit = Undefined =>
              /\ Made("signerEstimateGas")
              /\ SentTx.gasLimit = CallAt("signerEstimateGas").ret
              /\ SentTx.gasLimit # Undefined
         /\ (Supplied.gasPrice # Undefined \/ Supplied.maxFeePerGas # Undefined) =>
              /\ SentTx.gasPrice = Supplied.gasPrice
              /\ SentTx.maxFeePerGas = Supplied.maxFeePerGas
              /\ SentTx.maxPriorityFeePerGas = Supplied.maxPriorityFeePerGas
         /\ Supplied.nonce # Undefined => SentTx.nonce = Supplied.nonce

C6_Witness ==
  /\ op = "cancelOrders" /\ Made("sendTransaction")
  /\ Supplied.nonce = Some(0) /\ Supplied.gasLimit = Some(0)
  /\ Supplied.gasPrice = Undefined /\ Supplied.maxFeePerGas = Some(1)
  /\ SentTx.gasPrice = Undefined

\* C7: withdrawBasedOnAmount1 reads totalAssets() once, then totalSupply()
\* once, and sends vault.withdraw(floor(amount1 * totalSupply / totalAssets[0]),
\* signer, signer); with totalAssets[0] = 0 it throws and sends no withdraw.
C7_SharesForWithdraw ==
  op = "withdrawBasedOnAmount1" =>
    /\ Made("withdraw") =>
         /\ IndexOf("totalAssets") = 1 /\ IndexOf("totalSupply") = 2
         /\ Cardinality({k \in DOMAIN calls :
                           calls[k].fn \in {"totalAssets", "totalSupply"}}) = 2
         /\ CallAt("totalAssets").ret[1][1] # 0
         /\ CallAt("withdraw").nums =
              << (args.amount1 * CallAt("totalSupply").ret[1])
                   \div CallAt("totalAssets").ret[1][1] >>
         /\ CallAt("withdraw").addrs = <<SignerAddress, SignerAddress>>
         /\ CallAt("withdraw").to = VaultAddress
    /\ (Made("totalAssets") /\ Ok(CallAt("totalAssets"))
          /\ CallAt("totalAssets").ret[1][1] = 0) =>
         /\ ~Made("withdraw")
         /\ (Made("totalSupply") /\ Ok(CallAt("totalSupply"))) =>
              /\ outcome = Thrown(DivisionByZero)
              /\ Len(calls) = 2

C7_Witness ==
  /\ op = "withdrawBasedOnAmount1" /\ Made("withdraw")
  /\ args.amount1 = 3
  /\ CallAt("totalSupply").ret = Some(3)
  /\ CallAt("totalAssets").ret[1][1] = 2
  /\ CallAt("withdraw").nums = <<4>>

\* C8: calculateAmount2ForAmount1 returns floor(amount1 * vaultBestAsk /
\* WeiPerEther); depositBasedOnAmount1 fetches the price once and uses that one
\* amount2 as the quote-asset approval amount and as the second argument of
\* vault.deposit(amount1, amount2, signer).
C8_Amount2FromPrice ==
  /\ (op = "calculateAmount2ForAmount1" /\ outcome.kind = "returned") =>
       outcome.value[1] =
         (args.amount1 * CallAt("getVaultParams").ret[1].vaultBestAsk)
           \div WeiPerEther
  /\ op = "depositBasedOnAmount1" =>
       /\ Cardinality({k \in DOMAIN calls : calls[k].fn = "getVaultParams"}) <= 1
       /\ Made("approve2") =>
            CallAt("approve2").nums =
              << (args.amount1 * CallAt("getVaultParams").ret[1].vaultBestAsk)
                   \div WeiPerEther >>
       /\ Made("deposit") =>
            /\ CallAt("deposit").nums =
                 << args.amount1,
                    (args.amount1 * CallAt("getVaultParams").ret[1].vaultBestAsk)
                      \div WeiPerEther >>
            /\ CallAt("deposit").addrs = <<SignerAddress>>
            /\ Made("approve2") =>
                 CallAt("approve2").nums[1] = CallAt("deposit").nums[2]

C8_Witness ==
  /\ op = "depositBasedOnAmount1" /\ args.shouldApprove /\ Made("deposit")
  /\ args.amount1 = 3
  /\ CallAt("getVaultParams").ret[1].vaultBestAsk = 1500
  /\ CallAt("approve2").nums = <<4>>

\* C9: the preview helpers return what previewMint / previewRedeem /
\* previewDeposit answered for the caller's arguments; depositWithAmounts sends
\* deposit(amount1, amount2, ...) and withdrawBasedOnShares sends redeem(shares,
\* ...) with the caller's values; depositBasedOnShares approves the pair
\* previewMint(shares) answered and mints the caller's shares.
C9_PassThrough ==
  /\ (op = "calculateDepositForShares" /\ outcome.kind = "returned") =>
       /\ CallAt("previewMint").nums = <<args.shares>>
       /\ outcome.value[1].amount1 = CallAt("previewMint").ret[1][1]
       /\ outcome.value[1].amount2 = CallAt("previewMint").ret[1][2]
  /\ (op = "calculateWithdrawForShares" /\ outcome.kind = "returned") =>
       /\ CallAt("previewRedeem").nums = <<args.shares>>
       /\ outcome.value[1].amount1 = CallAt("previewRedeem").ret[1][1]
       /\ outcome.value[1].amount2 = CallAt("previewRedeem").ret[1][2]
  /\ (op = "calculateSharesForDeposit" /\ outcome.kind = "returned") =>
       /\ CallAt("previewDeposit").nums = <<args.amount1, args.amount2>>
       /\ outcome.value = CallAt("previewDeposit").ret
  /\ (op = "depositWithAmounts" /\ Made("deposit")) =>
       CallAt("deposit").nums = <<args.amount1, args.amount2>>
  /\ (op = "withdrawBasedOnShares" /\ Made("redeem")) =>
       CallAt("redeem").nums = <<args.shares>>
  /\ op = "depositBasedOnShares" =>
       /\ Made("previewMint") => CallAt("previewMint").nums = <<args.shares>>
       /\ Made("approve1") =>
            /\ CallAt("approve1").to = BaseAsset
            /\ CallAt("approve1").nums = <<CallAt("previewMint").ret[1][1]>>
       /\ Made("approve2") =>
            /\ CallAt("approve2").to = QuoteAsset
            /\ CallAt("approve2").nums = <<CallAt("previewMint").ret[1][2]>>
       /\ Made("mint") => CallAt("mint").nums = <<args.shares>>

C9_Witness ==
  /\ op = "depositBasedOnShares" /\ args.shouldApprove /\ Made("mint")
  /\ args.shares = 3
  /\ CallAt("previewMint").ret = Some(<<1, 2>>)

\* C10: with neither gasPrice nor maxFeePerGas supplied, the transaction sent
\* has gasPrice = fetched base gas price + priorityFee * 10^9 for a non-zero
\* priorityFee, and the base gas price alone otherwise; with either supplied,
\* the transaction sent is the same whatever priorityFee is.
C10_PriorityFee ==
  (op = "cancelOrders" /\ Made("sendTransaction")) =>
    IF Supplied.gasPrice = Undefined /\ Supplied.maxFeePerGas = Undefined
      THEN /\ Made("getGasPrice")
           /\ SentTx.gasPrice =
                IF Supplied.priorityFee # Undefined /\ Supplied.priorityFee[1] # 0
                  THEN Some(CallAt("getGasPrice").ret[1]
                              + Supplied.priorityFee[1] * 1000000000)
                  ELSE CallAt("getGasPrice").ret
      ELSE SentTx =
             [ to |-> Some(OrderbookAddress),
               from |-> Some(SignerAddress),
               data |-> Some([fn |-> "batchCancelOrders",
                              orderIds |-> args.orderIds]),
               nonce |-> Supplied.nonce,
               gasLimit |-> IF Supplied.gasLimit # Undefined
                              THEN Supplied.gasLimit
                              ELSE CallAt("signerEstimateGas").ret,
               gasPrice |-> Supplied.gasPrice,
               maxFeePerGas |-> Supplied.maxFeePerGas,
               maxPriorityFeePerGas |-> Supplied.maxPriorityFeePerGas ]

C10_Witness ==
  /\ op = "cancelOrders" /\ Made("sendTransaction")
  /\ Supplied.gasPrice = Undefined /\ Supplied.maxFeePerGas = Undefined
  /\ Supplied.priorityFee = Some(2)
  /\ CallAt("getGasPrice").ret = Some(1)
  /\ SentTx.gasPrice = Some(2000000001)

=============================================================================
